---- MODULE Spec2Model ----
(***************************************************************************)
(* Model of AdequateCache (adequate-cache 1.0.1): the entry store, the     *)
(* LRU list, the lazy vacuum and the provider promise registry.            *)
(*                                                                         *)
(* One action is one synchronous run of JavaScript: a public method call,  *)
(* a setTimeout callback, or one reaction of the promise chain built in    *)
(* provide().  The clock is read through `clock`; it only moves between    *)
(* such runs (the tests drive the cache with a fixed `_now`).              *)
(***************************************************************************)
EXTENDS Integers, Sequences, FiniteSets, TLC

\* ---------------------------------------------------------------- bounds
MaxClock == 3
MaxTimers == 2
MaxFetches == 2

\* ------------------------------------------------------------ JS values
\* null / undefined where a number is expected (options, ttl)
NULL == -1
\* an omitted (undefined) ttl argument of set()
OMIT == -2
\* the value undefined, as a cache value and as a result
UNDEF == "undefined"
\* a null entry reference (_head, _tail, entry.prev, entry.next)
NIL == "null"

\* JS truthiness of a number-or-null
Truthy(n) == n # NULL /\ n # OMIT /\ n # 0

\* a >= b in JS when b may be null: null converts to 0
GeJs(a, b) == IF b = NULL THEN a >= 0 ELSE a >= b

\* ----------------------------------------------------------------- keys
\* A key argument is a number or a string (string | number).
NumKey(n) == [t |-> "num", n |-> n, s |-> ""]
StrKey(s) == [t |-> "str", n |-> 0, s |-> s]

Digits == <<"0", "1", "2", "3", "4", "5", "6", "7", "8", "9">>

RECURSIVE NatToString(_)
NatToString(n) ==
    IF n < 10 THEN Digits[n + 1]
    ELSE NatToString(n \div 10) \o Digits[(n % 10) + 1]

\* a key kept apart by its type, as a Map does without the cast
String_typed(k) == IF k.t = "num" THEN "#" \o NatToString(k.n) ELSE k.s

\* String(key)
String(k) == IF k.t = "num" THEN NatToString(k.n) ELSE k.s

RECURSIVE Join(_, _)
Join(strs, sep) ==
    IF Len(strs) = 0 THEN ""
    ELSE IF Len(strs) = 1 THEN strs[1]
    ELSE strs[1] \o sep \o Join(Tail(strs), sep)

\* args.map(String).join(',')
ArgsToKey(args) == Join([i \in 1..Len(args) |-> String(args[i])], ",")

\* what a provider promise can settle with: a value, undefined, or a rejection
FAIL == "fail"

\* -------------------------------------------------------------- options
DEFAULT_OPTIONS ==
    [vacuumFrequency |-> 60 * 1000,
     vacuumOverflowFactor |-> [num |-> 12, den |-> 10],
     vacuumInBackground |-> TRUE,
     bindMethods |-> TRUE]

\* constructor: defaults overridden by every supplied option
MergeOptions(user) ==
    [k \in (DOMAIN DEFAULT_OPTIONS) \cup (DOMAIN user) |->
        IF k \in DOMAIN user THEN user[k] ELSE DEFAULT_OPTIONS[k]]

\* The runs explored: the options the cache is constructed with and the
\* calls its client makes (keys, values, ttl arguments, provide arguments,
\* provider results, and for how long the clock runs).
TtlRun ==
    [options  |-> [ttl |-> 1, vacuumFrequency |-> 2],
     keys     |-> {StrKey("1"), StrKey("2")},
     values   |-> {"A"},
     ttls     |-> {OMIT, 0},
     args     |-> {<<StrKey("1")>>},
     outcomes |-> {"A"},
     horizon  |-> MaxClock]

TtlSyncRun ==
    [options  |-> [ttl |-> 1, vacuumFrequency |-> 2, vacuumInBackground |-> FALSE,
                   max |-> NULL],
     keys     |-> {StrKey("1"), StrKey("2")},
     values   |-> {"A"},
     ttls     |-> {OMIT, NULL, 2},
     args     |-> {<<StrKey("1")>>},
     outcomes |-> {"A"},
     horizon  |-> MaxClock]

LruRun ==
    [options  |-> [max |-> 2],
     keys     |-> {StrKey("1"), NumKey(2), StrKey("3")},
     values   |-> {"A"},
     ttls     |-> {OMIT},
     args     |-> {<<StrKey("1")>>},
     outcomes |-> {"A"},
     horizon  |-> 0]

LruSyncRun ==
    [options  |-> [max |-> 2, ttl |-> 1, vacuumFrequency |-> 2,
                   vacuumInBackground |-> FALSE,
                   vacuumOverflowFactor |-> [num |-> 15, den |-> 10]],
     keys     |-> {StrKey("1"), StrKey("2"), StrKey("3")},
     values   |-> {"A"},
     ttls     |-> {OMIT},
     args     |-> {<<StrKey("1")>>},
     outcomes |-> {"A"},
     horizon  |-> 2]

ProvideRun ==
    [options  |-> [provider |-> TRUE],
     keys     |-> {StrKey("1")},
     values   |-> {"A"},
     ttls     |-> {OMIT},
     args     |-> {<<StrKey("1")>>},
     outcomes |-> {"B", UNDEF, FAIL},
     horizon  |-> 0]

ProvideTtlRun ==
    [options  |-> [provider |-> TRUE, ttl |-> 1],
     keys     |-> {StrKey("1")},
     values   |-> {"A"},
     ttls     |-> {OMIT},
     args     |-> {<<StrKey("1")>>},
     outcomes |-> {"B"},
     horizon  |-> MaxClock - 1]

ProvideLruRun ==
    [options  |-> [provider |-> TRUE, max |-> 1, vacuumInBackground |-> FALSE],
     keys     |-> {StrKey("1"), StrKey("2")},
     values   |-> {"A"},
     ttls     |-> {OMIT},
     args     |-> {<<StrKey("1")>>},
     outcomes |-> {"B"},
     horizon  |-> 0]

\* the README example: max 2, ttl 1000, everything else at its default; its
\* client sets 'a' without a ttl, 'b' with 2000 and 'c' with null
ReadmeRun ==
    [options  |-> [max |-> 2, ttl |-> 1000],
     keys     |-> {StrKey("a"), StrKey("b"), StrKey("c")},
     values   |-> {"A"},
     ttls     |-> {OMIT, 2000, NULL},
     ttlOf    |-> [a |-> OMIT, b |-> 2000, c |-> NULL],
     args     |-> {<<StrKey("a")>>},
     outcomes |-> {"A"},
     horizon  |-> 0]

\* vacuumFrequency: null ("Set to null to disable"), no max
FrequencyNullRun ==
    [options  |-> [ttl |-> 1, vacuumFrequency |-> NULL],
     keys     |-> {StrKey("1"), StrKey("2")},
     values   |-> {"A"},
     ttls     |-> {OMIT, NULL},
     args     |-> {<<StrKey("1")>>},
     outcomes |-> {"A"},
     horizon  |-> 1]

\* the ordering test: max 5 and four keys, so that nothing is ever evicted
OrderRun ==
    [options  |-> [max |-> 5],
     keys     |-> {StrKey("a"), StrKey("b"), StrKey("c"), StrKey("d")},
     values   |-> {"A"},
     ttls     |-> {OMIT},
     args     |-> {<<StrKey("a")>>},
     outcomes |-> {"A"},
     horizon  |-> 0]

\* max 1 and ttl 1 with the deferred sweep: expired and overflowing entries
\* wait in the store together
LruTtlRun ==
    [options  |-> [max |-> 1, ttl |-> 1],
     keys     |-> {StrKey("1"), StrKey("2")},
     values   |-> {"A"},
     ttls     |-> {OMIT, NULL},
     args     |-> {<<StrKey("1")>>},
     outcomes |-> {"A"},
     horizon  |-> 2]

\* max 1 with vacuumOverflowFactor 3 and the sweep inside the call: the
\* store may hold two entries, the third insert sweeps
SyncOverflowRun ==
    [options  |-> [max |-> 1, vacuumInBackground |-> FALSE,
                   vacuumOverflowFactor |-> [num |-> 30, den |-> 10]],
     keys     |-> {StrKey("1"), StrKey("2"), StrKey("3")},
     values   |-> {"A"},
     ttls     |-> {OMIT},
     args     |-> {<<StrKey("1")>>},
     outcomes |-> {"A"},
     horizon  |-> 0]

Runs ==
    {TtlRun, TtlSyncRun, LruRun, LruSyncRun, ProvideRun, ProvideTtlRun, ProvideLruRun,
     ReadmeRun, FrequencyNullRun, OrderRun, LruTtlRun, SyncOverflowRun}

\* the runs with the deferred sweep that the fair specification follows
FairRuns == {TtlRun, LruRun, LruTtlRun, ProvideRun}

\* ---------------------------------------------------------------- state
VARIABLES
    env,                \* the run: which calls the client makes
    options,            \* this._options
    clock,              \* what this._now() returns
    data,               \* this._data: the entries, in Map insertion order
    head,               \* this._head (key of the entry, or NIL)
    tail,               \* this._tail
    ttlCount,           \* this._ttlCount
    lastVacuumAt,       \* this._lastVacuumAt
    pendingVacuum,      \* this._pendingVacuum
    timers,             \* setTimeout(() => this._vacuum(), 0) callbacks not yet run
    providerPromises,   \* this._providerPromises: key -> promise
    fetches,            \* the promise chains built by provide()
    ret,                \* the last step: the call, its arguments, what it returned
    touched             \* when max is set: the live keys, most recently touched first

vars == <<env, options, clock, data, head, tail, ttlCount, lastVacuumAt,
          pendingVacuum, timers, providerPromises, fetches, ret, touched>>

\* an option, null when it was never set
Opt(name) == IF name \in DOMAIN options THEN options[name] ELSE NULL

\* ------------------------------------------------------------ the entry
\* new AdequateCacheEntry(key, value, ttl, timestamp)
AdequateCacheEntry(key, value, ttl, timestamp) ==
    [key |-> key, value |-> value, ttl |-> ttl, timestamp |-> timestamp,
     next |-> NIL, prev |-> NIL]

\* hasExpired with >= for >: an entry would expire one tick early
HasExpired_ge(entry, nowTimestamp) ==
    Truthy(entry.ttl) /\ nowTimestamp - entry.timestamp >= entry.ttl

\* hasExpired telling only null from a number: a ttl of 0 expires at once
HasExpired_zero(entry, nowTimestamp) ==
    entry.ttl # NULL /\ nowTimestamp - entry.timestamp > entry.ttl

\* entry.hasExpired(nowTimestamp)
HasExpired(entry, nowTimestamp) ==
    Truthy(entry.ttl) /\ nowTimestamp - entry.timestamp > entry.ttl

\* --------------------------------------------------- Map<string, entry>
MapHas(d, k) == \E i \in 1..Len(d) : d[i].key = k
MapIdx(d, k) == CHOOSE i \in 1..Len(d) : d[i].key = k
MapGet(d, k) == d[MapIdx(d, k)]
MapDelete(d, k) == SelectSeq(d, LAMBDA e : e.key # k)
MapKeys(d) == [i \in 1..Len(d) |-> d[i].key]

\* The cache as one value: the fields the private methods read and write.
\* swept records whether _vacuum ran during the current call.
Cache ==
    [data |-> data, head |-> head, tail |-> tail, ttlCount |-> ttlCount,
     lastVacuumAt |-> lastVacuumAt, pendingVacuum |-> pendingVacuum,
     timers |-> timers, swept |-> FALSE]

\* ---------------------------------------------------------- linked list
\* _attachToHead leaving the prev of the old head as it was
AttachToHead_noPrev(c, k) ==
    LET i  == MapIdx(c.data, k)
        d1 == IF c.head # NIL
              THEN [c.data EXCEPT ![i].next = c.head]
              ELSE [c.data EXCEPT ![i].next = NIL]
        t1 == IF c.tail = NIL THEN k ELSE c.tail
    IN  [c EXCEPT !.data = [d1 EXCEPT ![i].prev = NIL], !.tail = t1, !.head = k]

\* _attachToHead(entry); the entry is the one stored under key k
AttachToHead(c, k) ==
    LET i  == MapIdx(c.data, k)
        d1 == IF c.head # NIL
              THEN [c.data EXCEPT ![i].next = c.head,
                                  ![MapIdx(c.data, c.head)].prev = k]
              ELSE [c.data EXCEPT ![i].next = NIL]
        t1 == IF c.tail = NIL THEN k ELSE c.tail
    IN  [c EXCEPT !.data = [d1 EXCEPT ![i].prev = NIL], !.tail = t1, !.head = k]

\* _detach(entry)
Detach(c, k) ==
    LET i  == MapIdx(c.data, k)
        e  == c.data[i]
        h1 == IF c.head = k THEN e.next ELSE c.head
        t1 == IF c.tail = k THEN e.prev ELSE c.tail
        d1 == IF e.next # NIL
              THEN [c.data EXCEPT ![MapIdx(c.data, e.next)].prev = e.prev]
              ELSE c.data
        d2 == IF e.prev # NIL
              THEN [d1 EXCEPT ![MapIdx(d1, e.prev)].next = e.next]
              ELSE d1
    IN  [c EXCEPT !.data = [d2 EXCEPT ![i].next = NIL, ![i].prev = NIL],
                  !.head = h1, !.tail = t1]

\* _doDelete leaving _ttlCount as it was
DoDelete_noCount(c, k) ==
    LET c1 == IF Truthy(Opt("max")) THEN Detach(c, k) ELSE c
    IN  [c1 EXCEPT !.data = MapDelete(@, k)]

\* _doDelete(entry)
DoDelete(c, k) ==
    LET entry == MapGet(c.data, k)
        c1    == IF Truthy(Opt("max")) THEN Detach(c, k) ELSE c
    IN  [c1 EXCEPT !.data = MapDelete(@, k),
                   !.ttlCount = IF Truthy(entry.ttl) THEN @ - 1 ELSE @]

\* --------------------------------------------------------------- vacuum
\* the loop leaving at the first expired entry, whatever _ttlCount says
RECURSIVE VacuumExpired_first(_, _, _)
VacuumExpired_first(c, ks, now) ==
    IF Len(ks) = 0 THEN c
    ELSE IF HasExpired(MapGet(c.data, Head(ks)), now)
         THEN DoDelete(c, Head(ks))
         ELSE VacuumExpired_first(c, Tail(ks), now)

\* the loop leaving while one entry with a ttl is still counted
RECURSIVE VacuumExpired_early(_, _, _)
VacuumExpired_early(c, ks, now) ==
    IF Len(ks) = 0 THEN c
    ELSE IF HasExpired(MapGet(c.data, Head(ks)), now)
         THEN LET Rest(c1) == IF c1.ttlCount <= 1 THEN c1
                              ELSE VacuumExpired_early(c1, Tail(ks), now)
              IN  Rest(DoDelete(c, Head(ks)))
         ELSE VacuumExpired_early(c, Tail(ks), now)

\* the loop over this._data.values() in _vacuum; ks are the keys still to visit
RECURSIVE VacuumExpired(_, _, _)
VacuumExpired(c, ks, now) ==
    IF Len(ks) = 0 THEN c
    ELSE IF HasExpired(MapGet(c.data, Head(ks)), now)
         THEN LET Rest(c1) == IF c1.ttlCount <= 0 THEN c1
                              ELSE VacuumExpired(c1, Tail(ks), now)
              IN  Rest(DoDelete(c, Head(ks)))
         ELSE VacuumExpired(c, Tail(ks), now)

\* the loop eating from the head instead of the tail
RECURSIVE VacuumOverflow_head(_)
VacuumOverflow_head(c) ==
    IF Len(c.data) > Opt("max") /\ c.head # NIL
    THEN VacuumOverflow_head(DoDelete(c, c.head))
    ELSE c

\* the loop with >= for >: it eats one entry too many
RECURSIVE VacuumOverflow_ge(_)
VacuumOverflow_ge(c) ==
    IF Len(c.data) >= Opt("max") /\ c.tail # NIL
    THEN VacuumOverflow_ge(DoDelete(c, c.tail))
    ELSE c

\* the loop leaving one entry too many
RECURSIVE VacuumOverflow_lax(_)
VacuumOverflow_lax(c) ==
    IF Len(c.data) > Opt("max") + 1 /\ c.tail # NIL
    THEN VacuumOverflow_lax(DoDelete(c, c.tail))
    ELSE c

\* the loop "eat from tail until we are good" in _vacuum
RECURSIVE VacuumOverflow(_)
VacuumOverflow(c) ==
    IF Len(c.data) > Opt("max") /\ c.tail # NIL
    THEN VacuumOverflow(DoDelete(c, c.tail))
    ELSE c

\* _vacuum with the overflow eaten before the expired entries are removed
Vacuum_trimFirst(c, now) ==
    LET c0 == [c EXCEPT !.pendingVacuum = FALSE, !.lastVacuumAt = now,
                        !.swept = TRUE]
        Expired(c1) == IF c1.ttlCount > 0
                       THEN VacuumExpired(c1, MapKeys(c1.data), now)
                       ELSE c1
        Overflow(c1) == IF Truthy(Opt("max")) THEN VacuumOverflow(c1) ELSE c1
    IN  Expired(Overflow(c0))

\* _vacuum returning before it resets the flags when the store is empty
Vacuum_skipEmpty(c, now) ==
    LET c0 == [c EXCEPT !.pendingVacuum = FALSE, !.lastVacuumAt = now,
                        !.swept = TRUE]
        Expired(c1) == IF c1.ttlCount > 0
                       THEN VacuumExpired(c1, MapKeys(c1.data), now)
                       ELSE c1
        Overflow(c1) == IF Truthy(Opt("max")) THEN VacuumOverflow(c1) ELSE c1
    IN  IF Len(c.data) = 0 THEN [c EXCEPT !.swept = TRUE]
        ELSE Overflow(Expired(c0))

\* _vacuum()
Vacuum(c, now) ==
    LET c0 == [c EXCEPT !.pendingVacuum = FALSE, !.lastVacuumAt = now,
                        !.swept = TRUE]
        \* if (this._ttlCount > 0) { for (const entry of this._data.values()) ... }
        Expired(c1) == IF c1.ttlCount > 0
                       THEN VacuumExpired(c1, MapKeys(c1.data), now)
                       ELSE c1
        \* if (this._options.max) { while (...) ... }
        Overflow(c1) == IF Truthy(Opt("max")) THEN VacuumOverflow(c1) ELSE c1
    IN  Overflow(Expired(c0))

\* _tryVacuum with > for >= in the overflow test
TryVacuum_strict(c, now) ==
    IF c.pendingVacuum THEN c
    ELSE IF c.ttlCount = 0
            /\ (~Truthy(Opt("max")) \/ Len(c.data) < Opt("max"))
    THEN c
    ELSE IF \/ GeJs(now - c.lastVacuumAt, Opt("vacuumFrequency"))
            \/ /\ Truthy(Opt("max"))
               /\ Len(c.data) * options.vacuumOverflowFactor.den
                    > Opt("max") * options.vacuumOverflowFactor.num
    THEN IF options.vacuumInBackground
         THEN [c EXCEPT !.pendingVacuum = TRUE, !.timers = @ + 1]
         ELSE Vacuum(c, now)
    ELSE c

\* _tryVacuum without the return for a store that needs no sweep
TryVacuum_noGuard(c, now) ==
    IF c.pendingVacuum THEN c
    ELSE IF \/ GeJs(now - c.lastVacuumAt, Opt("vacuumFrequency"))
            \/ /\ Truthy(Opt("max"))
               /\ Len(c.data) * options.vacuumOverflowFactor.den
                    >= Opt("max") * options.vacuumOverflowFactor.num
    THEN IF options.vacuumInBackground
         THEN [c EXCEPT !.pendingVacuum = TRUE, !.timers = @ + 1]
         ELSE Vacuum(c, now)
    ELSE c

\* _tryVacuum running the sweep itself whatever vacuumInBackground says
TryVacuum_alwaysSync(c, now) ==
    IF c.pendingVacuum THEN c
    ELSE IF c.ttlCount = 0
            /\ (~Truthy(Opt("max")) \/ Len(c.data) < Opt("max"))
    THEN c
    ELSE IF \/ GeJs(now - c.lastVacuumAt, Opt("vacuumFrequency"))
            \/ /\ Truthy(Opt("max"))
               /\ Len(c.data) * options.vacuumOverflowFactor.den
                    >= Opt("max") * options.vacuumOverflowFactor.num
    THEN Vacuum(c, now)
    ELSE c

\* _tryVacuum raising the flag without calling setTimeout
TryVacuum_noTimer(c, now) ==
    IF c.pendingVacuum THEN c
    ELSE IF c.ttlCount = 0
            /\ (~Truthy(Opt("max")) \/ Len(c.data) < Opt("max"))
    THEN c
    ELSE IF \/ GeJs(now - c.lastVacuumAt, Opt("vacuumFrequency"))
            \/ /\ Truthy(Opt("max"))
               /\ Len(c.data) * options.vacuumOverflowFactor.den
                    >= Opt("max") * options.vacuumOverflowFactor.num
    THEN IF options.vacuumInBackground
         THEN [c EXCEPT !.pendingVacuum = TRUE]
         ELSE Vacuum(c, now)
    ELSE c

\* _tryVacuum asking the clock only, never the size
TryVacuum_timeOnly(c, now) ==
    IF c.pendingVacuum THEN c
    ELSE IF c.ttlCount = 0
            /\ (~Truthy(Opt("max")) \/ Len(c.data) < Opt("max"))
    THEN c
    ELSE IF GeJs(now - c.lastVacuumAt, Opt("vacuumFrequency"))
    THEN IF options.vacuumInBackground
         THEN [c EXCEPT !.pendingVacuum = TRUE, !.timers = @ + 1]
         ELSE Vacuum(c, now)
    ELSE c

\* _tryVacuum()
TryVacuum(c, now) ==
    IF c.pendingVacuum THEN c
    ELSE IF c.ttlCount = 0
            /\ (~Truthy(Opt("max")) \/ Len(c.data) < Opt("max"))
    THEN c
    ELSE IF \/ GeJs(now - c.lastVacuumAt, Opt("vacuumFrequency"))
            \/ /\ Truthy(Opt("max"))
               /\ Len(c.data) * options.vacuumOverflowFactor.den
                    >= Opt("max") * options.vacuumOverflowFactor.num
    THEN IF options.vacuumInBackground
         THEN [c EXCEPT !.pendingVacuum = TRUE, !.timers = @ + 1]
         ELSE Vacuum(c, now)
    ELSE c

\* ------------------------------------------------------- public methods
\* Each method maps the cache to the cache after the call and the result.

\* get leaving the entry it finds where it is in the list
GetOp_noTouch(c, key, now) ==
    LET k       == String(key)
        found   == MapHas(c.data, k)
        entry   == MapGet(c.data, k)
        expired == found /\ HasExpired(entry, now)
        c1      == IF found /\ expired THEN DoDelete(c, k) ELSE c
    IN  [c   |-> TryVacuum(c1, now),
         val |-> IF found /\ ~expired THEN entry.value ELSE UNDEF]

\* get stamping the entry it finds with the clock of the read
GetOp_refresh(c, key, now) ==
    LET k       == String(key)
        found   == MapHas(c.data, k)
        entry   == MapGet(c.data, k)
        expired == found /\ HasExpired(entry, now)
        c1      == IF ~found THEN c
                   ELSE IF expired THEN DoDelete(c, k)
                   ELSE IF Truthy(Opt("max")) THEN AttachToHead(Detach(c, k), k)
                   ELSE c
        c2      == IF found /\ ~expired
                   THEN [c1 EXCEPT !.data[MapIdx(c1.data, k)].timestamp = now]
                   ELSE c1
    IN  [c   |-> TryVacuum(c2, now),
         val |-> IF found /\ ~expired THEN entry.value ELSE UNDEF]

\* get(key)
GetOp(c, key, now) ==
    LET k       == String(key)
        found   == MapHas(c.data, k)
        entry   == MapGet(c.data, k)
        expired == found /\ HasExpired(entry, now)
        c1      == IF ~found THEN c
                   ELSE IF expired THEN DoDelete(c, k)
                   ELSE IF Truthy(Opt("max")) THEN AttachToHead(Detach(c, k), k)
                   ELSE c
    IN  [c   |-> TryVacuum(c1, now),
         val |-> IF found /\ ~expired THEN entry.value ELSE UNDEF]

\* has comparing the value with true instead of with undefined
HasOp_strict(c, key, now) ==
    LET Answer(r) == [c |-> r.c, val |-> IF r.val = "true" THEN "true" ELSE "false"]
    IN  Answer(GetOp(c, key, now))

\* has(key)
HasOp(c, key, now) ==
    LET Answer(r) == [c |-> r.c, val |-> IF r.val # UNDEF THEN "true" ELSE "false"]
    IN  Answer(GetOp(c, key, now))

\* del reporting the key without deleting its entry
DelOp_keep(c, key) ==
    LET k == String(key)
    IN  IF ~MapHas(c.data, k) THEN [c |-> c, val |-> "false"]
        ELSE [c |-> c, val |-> "true"]

\* del followed by the decision step that get and set end with
DelOp_vacuum(c, key) ==
    LET k == String(key)
    IN  IF ~MapHas(c.data, k) THEN [c |-> TryVacuum(c, clock), val |-> "false"]
        ELSE [c |-> TryVacuum(DoDelete(c, k), clock), val |-> "true"]

\* del answering as has would: an expired entry is reported as not there
DelOp_checkTtl(c, key) ==
    LET k == String(key)
    IN  IF ~MapHas(c.data, k) THEN [c |-> c, val |-> "false"]
        ELSE [c |-> DoDelete(c, k),
              val |-> IF HasExpired(MapGet(c.data, k), clock) THEN "false" ELSE "true"]

\* del(key)
DelOp(c, key) ==
    LET k == String(key)
    IN  IF ~MapHas(c.data, k) THEN [c |-> c, val |-> "false"]
        ELSE [c |-> DoDelete(c, k), val |-> "true"]

\* the fallback applied to a null ttl as well as to an omitted one
ResolveTtl_orDefault(ttlArg) ==
    IF ttlArg \in {OMIT, NULL} THEN Opt("ttl") ELSE ttlArg

\* if (ttl === undefined) { ttl = this._options.ttl; }
ResolveTtl(ttlArg) ==
    IF ttlArg = OMIT THEN Opt("ttl") ELSE ttlArg

\* set without the check for undefined: undefined is stored like any value
SetOp_store(c, key, value, ttlArg, now) ==
    LET k     == String(key)
        c1    == IF MapHas(c.data, k) THEN DoDelete(c, k) ELSE c
        ttl   == ResolveTtl(ttlArg)
        entry == AdequateCacheEntry(k, value, ttl, now)
        c2    == [c1 EXCEPT !.data = Append(@, entry)]
        Attach(c3) == IF Truthy(Opt("max")) THEN AttachToHead(c3, k) ELSE c3
        c4    == [Attach(c2) EXCEPT !.ttlCount = IF Truthy(ttl) THEN @ + 1 ELSE @]
    IN  [c |-> TryVacuum(c4, now), val |-> "true"]

\* set overwriting the value of an existing entry in place
SetOp_inPlace(c, key, value, ttlArg, now) ==
    IF value = UNDEF THEN DelOp(c, key)
    ELSE IF MapHas(c.data, String(key))
    THEN [c   |-> [c EXCEPT !.data[MapIdx(c.data, String(key))].value = value],
          val |-> "true"]
    ELSE SetOp_store(c, key, value, ttlArg, now)

\* set answering true without storing the entry
SetOp_discard(c, key, value, ttlArg, now) ==
    IF value = UNDEF THEN DelOp(c, key)
    ELSE [c |-> c, val |-> "true"]

\* set(key, value, ttl)
SetOp(c, key, value, ttlArg, now) ==
    IF value = UNDEF THEN DelOp(c, key)
    ELSE
    LET k     == String(key)
        c1    == IF MapHas(c.data, k) THEN DoDelete(c, k) ELSE c
        ttl   == ResolveTtl(ttlArg)
        entry == AdequateCacheEntry(k, value, ttl, now)
        c2    == [c1 EXCEPT !.data = Append(@, entry)]
        Attach(c3) == IF Truthy(Opt("max")) THEN AttachToHead(c3, k) ELSE c3
        c4    == [Attach(c2) EXCEPT !.ttlCount = IF Truthy(ttl) THEN @ + 1 ELSE @]
    IN  [c |-> TryVacuum(c4, now), val |-> "true"]

\* the loop ending after its first deletion
EmptyOutOp_first(c, ks) ==
    IF Len(ks) = 0 THEN c
    ELSE DelOp(c, StrKey(Head(ks))).c

\* emptyOut(): the loop over this._data.keys(); ks are the keys still to visit
RECURSIVE EmptyOutOp(_, _)
EmptyOutOp(c, ks) ==
    IF Len(ks) = 0 THEN c
    ELSE EmptyOutOp(DelOp(c, StrKey(Head(ks))).c, Tail(ks))

\* keys()
KeysOp(c, now) ==
    LET Iterator(c1) == [c |-> c1, keys |-> MapKeys(c1.data)]
    IN  Iterator(Vacuum(c, now))

\* ---------------------------------------------------- provider promises
\* A chain built by provide():
\*   Promise.resolve().then(provider).finally(delete).then(set)
\* stage: "free"       no chain in this slot
\*        "registered" in _providerPromises, provider not yet called
\*        "pending"    provider called, its promise not settled
\*        "settled"    provider result known, the finally callback queued
\*        "cleaned"    finally callback done, the last then callback queued
FreeFetch == [stage |-> "free", key |-> "", outcome |-> ""]

\* a reaction of a promise chain is queued: macrotasks must wait
MicrotaskQueued ==
    \E f \in DOMAIN fetches : fetches[f].stage \in {"registered", "settled", "cleaned"}

\* a registry that is never consulted
ActivePromise_none(key) == 0

\* this._providerPromises.get(key); 0 when there is none
ActivePromise(key) ==
    IF key \in DOMAIN providerPromises THEN providerPromises[key] ELSE 0

\* the lowest free slot for a new chain
NewFetch ==
    CHOOSE f \in DOMAIN fetches :
        /\ fetches[f].stage = "free"
        /\ \A f2 \in DOMAIN fetches : fetches[f2].stage = "free" => f <= f2

\* ------------------------------------------------------- what is observed
KeySet(d) == {d[i].key : i \in 1..Len(d)}

NoResult ==
    [op |-> "", key |-> "", arg |-> "", ttl |-> OMIT, val |-> "", id |-> 0,
     keys |-> <<>>, swept |-> FALSE, had |-> FALSE, removed |-> {}, head |-> NIL,
     stale |-> FALSE]

\* the record of a step that left the cache as c: whether _vacuum ran in it,
\* whether the key was in the store before it, which keys left the store,
\* the head of the list before it, and whether the entry of the key had
\* expired before it
Result(op, key, arg, val, id, c) ==
    [op |-> op, key |-> key, arg |-> arg, ttl |-> OMIT, val |-> val, id |-> id,
     keys |-> <<>>, swept |-> c.swept, had |-> MapHas(data, key),
     removed |-> KeySet(data) \ KeySet(c.data), head |-> head,
     stale |-> MapHas(data, key) /\ HasExpired(MapGet(data, key), clock)]

\* the order of last touch after a step that left the cache as c; hit says
\* that the step touched key k (a set, or a get that found it)
Touched(c, k, hit) ==
    IF ~Truthy(Opt("max")) THEN <<>>
    ELSE LET t1 == IF hit
                   THEN <<k>> \o SelectSeq(touched, LAMBDA x : x # k)
                   ELSE touched
         IN  SelectSeq(t1, LAMBDA x : x \in KeySet(c.data))

\* write the cache fields back
Install(c) ==
    /\ c.timers <= MaxTimers
    /\ data' = c.data
    /\ head' = c.head
    /\ tail' = c.tail
    /\ ttlCount' = c.ttlCount
    /\ lastVacuumAt' = c.lastVacuumAt
    /\ pendingVacuum' = c.pendingVacuum
    /\ timers' = c.timers

CacheVars == <<data, head, tail, ttlCount, lastVacuumAt, pendingVacuum, timers>>

\* -------------------------------------------------------------- actions
Init ==
    /\ env \in Runs
    /\ options = MergeOptions(env.options)
    /\ clock = 0
    /\ data = <<>>
    /\ head = NIL
    /\ tail = NIL
    /\ ttlCount = 0
    /\ lastVacuumAt = 0
    /\ pendingVacuum = FALSE
    /\ timers = 0
    /\ providerPromises = <<>>
    /\ fetches = [f \in 1..MaxFetches |-> FreeFetch]
    /\ ret = NoResult
    /\ touched = <<>>

\* time passes
Tick ==
    /\ clock < env.horizon
    /\ clock' = clock + 1
    /\ ret' = [NoResult EXCEPT !.op = "tick"]
    /\ UNCHANGED <<env, options, CacheVars, providerPromises, fetches, touched>>

Get(key) ==
    LET Return(r) ==
            /\ Install(r.c)
            /\ ret' = Result("get", String(key), "", r.val, 0, r.c)
            /\ touched' = Touched(r.c, String(key), r.val # UNDEF)
    IN  /\ Return(GetOp(Cache, key, clock))
        /\ UNCHANGED <<env, options, clock, providerPromises, fetches>>

Has(key) ==
    LET Return(r) ==
            /\ Install(r.c)
            /\ ret' = Result("has", String(key), "", r.val, 0, r.c)
            /\ touched' = Touched(r.c, String(key), r.val = "true")
    IN  /\ Return(HasOp(Cache, key, clock))
        /\ UNCHANGED <<env, options, clock, providerPromises, fetches>>

Set(key, value, ttlArg) ==
    LET Return(r) ==
            /\ Install(r.c)
            /\ ret' = [Result("set", String(key), value, r.val, 0, r.c)
                          EXCEPT !.ttl = ttlArg]
            /\ touched' = Touched(r.c, String(key), value # UNDEF)
    IN  /\ Return(SetOp(Cache, key, value, ttlArg, clock))
        /\ UNCHANGED <<env, options, clock, providerPromises, fetches>>

Del(key) ==
    LET Return(r) ==
            /\ Install(r.c)
            /\ ret' = Result("del", String(key), "", r.val, 0, r.c)
            /\ touched' = Touched(r.c, String(key), FALSE)
    IN  /\ Return(DelOp(Cache, key))
        /\ UNCHANGED <<env, options, clock, providerPromises, fetches>>

EmptyOut ==
    LET Return(c1) ==
            /\ Install(c1)
            /\ ret' = Result("emptyOut", "", "", "", 0, c1)
            /\ touched' = Touched(c1, "", FALSE)
    IN  /\ Return(EmptyOutOp(Cache, MapKeys(data)))
        /\ UNCHANGED <<env, options, clock, providerPromises, fetches>>

Keys ==
    LET Return(r) ==
            /\ Install(r.c)
            /\ ret' = [Result("keys", "", "", "", 0, r.c) EXCEPT !.keys = r.keys]
            /\ touched' = Touched(r.c, "", FALSE)
    IN  /\ Return(KeysOp(Cache, clock))
        /\ UNCHANGED <<env, options, clock, providerPromises, fetches>>

\* the setTimeout callback: () => this._vacuum(); it is a macrotask, so it
\* runs only when no promise reaction is queued
VacuumTimer ==
    /\ timers > 0
    /\ ~MicrotaskQueued
    /\ LET Return(c1) ==
               /\ Install(c1)
               /\ ret' = Result("timer", "", "", "", 0, c1)
               /\ touched' = Touched(c1, "", FALSE)
       IN  Return([Vacuum(Cache, clock) EXCEPT !.timers = @ - 1])
    /\ UNCHANGED <<env, options, clock, providerPromises, fetches>>

\* provide looking the key up before it finds that no provider is configured
Provide_lookupFirst(args) ==
    LET Return(r) ==
            /\ Install(r.c)
            /\ ret' = Result("provide", ArgsToKey(args), "", "throw", 0, r.c)
            /\ touched' = Touched(r.c, ArgsToKey(args), r.val = "true")
    IN  /\ Return(HasOp(Cache, StrKey(ArgsToKey(args)), clock))
        /\ UNCHANGED <<env, options, clock, providerPromises, fetches>>

\* provide(...args)
Provide(args) ==
    IF "provider" \notin DOMAIN options
    THEN /\ ret' = [NoResult EXCEPT !.op = "provide", !.val = "throw"]
         /\ UNCHANGED <<env, options, clock, CacheVars, providerPromises, fetches,
                        touched>>
    ELSE
    LET key == ArgsToKey(args)
        \* return Promise.resolve(this.get(key)); h is the cache after has(key)
        Hit(h, g) ==
            /\ Install(g.c)
            /\ ret' = [Result("provide", key, "", g.val, 0, g.c)
                          EXCEPT !.swept = h.swept \/ g.c.swept]
            /\ touched' = Touched(g.c, key, TRUE)
            /\ UNCHANGED <<env, options, clock, providerPromises, fetches>>
        Miss(h) ==
            IF ActivePromise(key) # 0
            THEN \* an active provider promise is reused
                 /\ Install(h)
                 /\ ret' = Result("provide", key, "", "", ActivePromise(key), h)
                 /\ touched' = Touched(h, key, FALSE)
                 /\ UNCHANGED <<env, options, clock, providerPromises, fetches>>
            ELSE /\ \E f \in DOMAIN fetches : fetches[f].stage = "free"
                 /\ Install(h)
                 /\ fetches' = [fetches EXCEPT ![NewFetch] =
                                   [stage |-> "registered", key |-> key, outcome |-> ""]]
                 /\ providerPromises' = [k \in DOMAIN providerPromises \cup {key} |->
                                            IF k = key THEN NewFetch
                                            ELSE providerPromises[k]]
                 /\ ret' = Result("provide", key, "", "", NewFetch, h)
                 /\ touched' = Touched(h, key, FALSE)
                 /\ UNCHANGED <<env, options, clock>>
        Decide(h) ==
            IF h.val = "true" THEN Hit(h.c, GetOp(h.c, StrKey(key), clock))
            ELSE Miss(h.c)
    IN  Decide(HasOp(Cache, StrKey(key), clock))

\* .then(() => this._options.provider(...args)): the provider is called and
\* returns a value, throws, or returns a promise that is still pending
ProviderCall(f) ==
    /\ fetches[f].stage = "registered"
    /\ \/ fetches' = [fetches EXCEPT ![f].stage = "pending"]
       \/ \E o \in env.outcomes :
              fetches' = [fetches EXCEPT ![f].stage = "settled", ![f].outcome = o]
    /\ ret' = [NoResult EXCEPT !.op = "providerCall", !.key = fetches[f].key, !.id = f]
    /\ UNCHANGED <<env, options, clock, CacheVars, providerPromises, touched>>

\* the promise returned by the provider resolves or rejects
ProviderSettle(f) ==
    /\ fetches[f].stage = "pending"
    /\ \E o \in env.outcomes :
           fetches' = [fetches EXCEPT ![f].stage = "settled", ![f].outcome = o]
    /\ ret' = [NoResult EXCEPT !.op = "providerSettle", !.key = fetches[f].key, !.id = f]
    /\ UNCHANGED <<env, options, clock, CacheVars, providerPromises, touched>>

\* the registration cleared on success only
RegistryDelete_onSuccess(f) ==
    IF fetches[f].outcome = FAIL THEN providerPromises
    ELSE [k \in DOMAIN providerPromises \ {fetches[f].key} |-> providerPromises[k]]

\* the registration left in place by the finally callback
RegistryDelete_keep(f) == providerPromises

\* the registry after this._providerPromises.delete(key)
RegistryDelete(f) ==
    [k \in DOMAIN providerPromises \ {fetches[f].key} |-> providerPromises[k]]

\* .finally(() => { this._providerPromises.delete(key); })
ProviderFinally(f) ==
    /\ fetches[f].stage = "settled"
    /\ fetches' = [fetches EXCEPT ![f].stage = "cleaned"]
    /\ providerPromises' = RegistryDelete(f)
    /\ ret' = [NoResult EXCEPT !.op = "providerFinally", !.key = fetches[f].key, !.id = f]
    /\ UNCHANGED <<env, options, clock, CacheVars, touched>>

\* the last callback keeping an entry that a set has stored meanwhile
ProviderThen_ifAbsent(f) ==
    /\ fetches[f].stage = "cleaned"
    /\ LET key == fetches[f].key
           o   == fetches[f].outcome
           Return(c1) ==
               /\ Install(c1)
               /\ ret' = Result("provided", key, "", o, f, c1)
               /\ touched' = Touched(c1, key, o \notin {FAIL, UNDEF} /\ ~MapHas(data, key))
       IN  Return(IF o = FAIL \/ MapHas(data, key) THEN Cache
                  ELSE SetOp(Cache, StrKey(key), o, OMIT, clock).c)
    /\ fetches' = [fetches EXCEPT ![f] = FreeFetch]
    /\ UNCHANGED <<env, options, clock, providerPromises>>

\* .then(value => { this.set(key, value); return value; }), skipped on
\* rejection; the promise handed out by provide() settles here
ProviderThen(f) ==
    /\ fetches[f].stage = "cleaned"
    /\ LET key == fetches[f].key
           o   == fetches[f].outcome
           Return(c1) ==
               /\ Install(c1)
               /\ ret' = Result("provided", key, "", o, f, c1)
               /\ touched' = Touched(c1, key, o \notin {FAIL, UNDEF})
       IN  Return(IF o = FAIL THEN Cache
                  ELSE SetOp(Cache, StrKey(key), o, OMIT, clock).c)
    /\ fetches' = [fetches EXCEPT ![f] = FreeFetch]
    /\ UNCHANGED <<env, options, clock, providerPromises>>

Next ==
    \/ Tick
    \/ \E key \in env.keys : Get(key)
    \/ \E key \in env.keys : Has(key)
    \/ \E key \in env.keys, value \in env.values \cup {UNDEF} :
          \E ttlArg \in (IF "ttlOf" \in DOMAIN env THEN {env.ttlOf[String(key)]}
                         ELSE env.ttls) :
             Set(key, value, ttlArg)
    \/ \E key \in env.keys : Del(key)
    \/ EmptyOut
    \/ Keys
    \/ VacuumTimer
    \/ \E args \in env.args : Provide(args)
    \/ \E f \in DOMAIN fetches : ProviderCall(f)
    \/ \E f \in DOMAIN fetches : ProviderSettle(f)
    \/ \E f \in DOMAIN fetches : ProviderFinally(f)
    \/ \E f \in DOMAIN fetches : ProviderThen(f)

Spec == Init /\ [][Next]_vars

\* the cache of one of the runs with the deferred sweep, just constructed
FairInit == Init /\ env \in FairRuns

\* The event loop runs every timer whose delay (0 here) has passed once the
\* promise reactions are done: a timer callback that stays ready is run in
\* the end. This is weak fairness of the callback, WF_vars(VacuumTimer),
\* written out: VacuumTimer is enabled exactly when a timer is outstanding
\* and no reaction is queued, and its steps are the steps that take one
\* timer away.
FairSpec ==
    /\ FairInit
    /\ [][Next]_vars
    /\ \/ []<>(timers = 0 \/ MicrotaskQueued)
       \/ []<><<timers' = timers - 1>>_vars

\* ================================================================ claims
\* the entry stored under key k
EntryAt(d, k) == d[CHOOSE i \in 1..Len(d) : d[i].key = k]
Stored(d, k) == \E i \in 1..Len(d) : d[i].key = k
\* the entry has a finite ttl
FiniteTtl(e) == e.ttl > 0

\* C1: a get or has on a key whose entry has a finite ttl T and was created
\* at c returns the stored value (true) while clock - c <= T, and returns
\* undefined (false) once clock - c > T, and then the entry has left the
\* store when the call returns.
C1_ExpiredNeverReported ==
    [][ (ret'.op \in {"get", "has"} /\ Stored(data, ret'.key)
            /\ FiniteTtl(EntryAt(data, ret'.key)))
        => LET e == EntryAt(data, ret'.key)
           IN  IF clock - e.timestamp <= e.ttl
               THEN ret'.val = (IF ret'.op = "get" THEN e.value ELSE "true")
               ELSE /\ ret'.val = (IF ret'.op = "get" THEN UNDEF ELSE "false")
                    /\ ~Stored(data', ret'.key) ]_vars

\* a get found its entry expired and removed it in the call itself
C1_Witness ==
    /\ ret.op = "get"
    /\ ret.val = UNDEF
    /\ ret.key \in ret.removed
    /\ ~ret.swept

\* C2: a get(k) issued right after set(k, v), v not undefined, at the same
\* clock value returns v, whatever the options and also when the set ran
\* a sweep.
C2_SetThenGet ==
    [][ (ret.op = "set" /\ ret.arg # UNDEF /\ ret'.op = "get" /\ ret'.key = ret.key)
        => ret'.val = ret.arg ]_vars

\* a set has just run a sweep that evicted another entry; its own entry is stored
C2_Witness ==
    /\ ret.op = "set"
    /\ ret.arg # UNDEF
    /\ ret.swept
    /\ ret.removed # {}
    /\ Stored(data, ret.key)

\* C3: with max = N and no ttl in the store, a sweep that finds N + 1
\* entries evicts exactly one, the least recently touched key.
C3_EvictsLeastRecent ==
    [][ /\ (ret'.swept /\ Truthy(Opt("max")) /\ Len(data) = Opt("max") + 1
                /\ \A i \in 1..Len(data) : ~FiniteTtl(data[i])
                /\ ret'.op \in {"keys", "timer"})
            => /\ ret'.removed = {touched[Len(touched)]}
               /\ Len(data') = Opt("max")
        \* the sweep runs inside the set that stores key N + 1
        /\ (ret'.swept /\ Truthy(Opt("max")) /\ Len(data) = Opt("max")
                /\ \A i \in 1..Len(data) : ~FiniteTtl(data[i])
                /\ ret'.op = "set" /\ ret'.arg # UNDEF /\ ~Stored(data, ret'.key)
                /\ Stored(data', ret'.key) /\ ~FiniteTtl(EntryAt(data', ret'.key)))
            => /\ ret'.removed = {touched[Len(touched)]}
               /\ Len(data') = Opt("max") ]_vars

\* keys() forced the sweep after three sets and no read: the first key set is gone
C3_Witness ==
    /\ ret.op = "keys"
    /\ Opt("max") = 2
    /\ ret.removed = {"1"}
    /\ ret.keys = <<"2", "3">>
    /\ touched = <<"3", "2">>

\* a chain whose provider result is not yet known
Unsettled(f) == fetches[f].stage \in {"registered", "pending"}

\* C4: while the fetch for key k is unsettled and k is not cached, every
\* provide deriving k returns the handle of that fetch and starts none, and
\* there is never more than one such fetch for a key.
C4_OneFetchPerKey ==
    /\ [](\A f1, f2 \in DOMAIN fetches :
            (Unsettled(f1) /\ Unsettled(f2) /\ fetches[f1].key = fetches[f2].key)
            => f1 = f2)
    /\ [][ \A f \in DOMAIN fetches :
             (ret'.op = "provide" /\ Unsettled(f) /\ fetches[f].key = ret'.key
                 /\ ~Stored(data, ret'.key))
             => (ret'.id = f /\ fetches' = fetches) ]_vars

\* a second provide has just been handed the handle of the pending fetch
C4_Witness ==
    /\ ret.op = "provide"
    /\ ret.id # 0
    /\ fetches[ret.id].stage = "pending"
    /\ ~Stored(data, ret.key)

\* C5: del(k) returns true exactly when k was in the store before the
\* call, and a has(k) issued right after it returns false.
C5_DelThenHas ==
    /\ [][ ret'.op = "del" => (ret'.val = "true" <=> Stored(data, ret'.key)) ]_vars
    /\ [][ (ret.op = "del" /\ ret'.op = "has" /\ ret'.key = ret.key)
           => ret'.val = "false" ]_vars

\* a del has just removed a stored key
C5_Witness ==
    /\ ret.op = "del"
    /\ ret.val = "true"
    /\ ret.removed = {ret.key}

\* C6: the keys produced by keys() are stored and none of them is expired
\* at the clock value of the call.
C6_KeysNotExpired ==
    ret.op = "keys"
    => \A i \in 1..Len(ret.keys) :
          /\ Stored(data, ret.keys[i])
          /\ LET e == EntryAt(data, ret.keys[i])
             IN  ~(FiniteTtl(e) /\ clock - e.timestamp > e.ttl)

\* keys() dropped an expired key while a deferred sweep was still outstanding
C6_Witness ==
    /\ ret.op = "keys"
    /\ ret.removed # {}
    /\ ret.keys # <<>>
    /\ timers > 0
    /\ ttlCount > 0

\* C7: at most one deferred sweep is scheduled and not yet run.
C7_OneDeferredSweep == timers <= 1

\* C8: when the fetch rejects, the handle settles as failed and nothing is
\* stored; the registry only ever holds fetches whose cleanup has not run,
\* so a provide that finds k neither cached nor with such a fetch starts a
\* new one.
C8_FailureCleansUp ==
    /\ [](\A k \in DOMAIN providerPromises :
            /\ fetches[providerPromises[k]].key = k
            /\ fetches[providerPromises[k]].stage \in {"registered", "pending", "settled"})
    /\ [][ (ret'.op = "provided" /\ fetches[ret'.id].outcome = FAIL)
           => (ret'.val = FAIL /\ data' = data
               /\ ActivePromise(ret'.key) # ret'.id) ]_vars
    /\ [][ (ret'.op = "provide" /\ ret'.val # "throw" /\ ~Stored(data, ret'.key)
              /\ \A f \in DOMAIN fetches :
                    fetches[f].key = ret'.key
                    => fetches[f].stage \notin {"registered", "pending", "settled"})
           => (fetches[ret'.id].stage = "free"
               /\ fetches'[ret'.id] = [stage |-> "registered", key |-> ret'.key,
                                       outcome |-> ""]) ]_vars

\* a failed fetch has just been reported and its key is neither cached nor registered
C8_Witness ==
    /\ ret.op = "provided"
    /\ ret.val = FAIL
    /\ ~Stored(data, ret.key)
    /\ ret.key \notin DOMAIN providerPromises

\* C9: a fetch that completes with undefined leaves the store as it was.
C9_UndefinedNotStored ==
    [][ (ret'.op = "provided" /\ ret'.val = UNDEF) => data' = data ]_vars

\* C10: provide on a key that is stored and not expired returns a resolved
\* promise with the stored value and leaves fetches and registry alone.
C10_ProvideHit ==
    [][ (ret'.op = "provide" /\ "provider" \in DOMAIN options
            /\ Stored(data, ret'.key)
            /\ LET e == EntryAt(data, ret'.key)
               IN  ~(FiniteTtl(e) /\ clock - e.timestamp > e.ttl))
        => /\ ret'.id = 0
           /\ ret'.val = EntryAt(data, ret'.key).value
           /\ fetches' = fetches
           /\ providerPromises' = providerPromises ]_vars

\* provide has just answered from the store while a fetch for another key is pending
C10_Witness ==
    /\ ret.op = "provide"
    /\ ret.id = 0
    /\ ret.val \in env.values
    /\ \E f \in DOMAIN fetches : fetches[f].stage = "pending"

\* C11: when provide misses and the provider yields a value v that is not
\* undefined, directly or through a promise, the handle resolves to v with v
\* stored under the derived key, and a get of that key right after returns v.
C11_ProvidedThenGet ==
    /\ [][ (ret'.op = "provided" /\ fetches[ret'.id].outcome \notin {FAIL, UNDEF})
           => /\ ret'.val = fetches[ret'.id].outcome
              /\ ret'.key = fetches[ret'.id].key
              /\ Stored(data', ret'.key)
              /\ EntryAt(data', ret'.key).value = ret'.val ]_vars
    /\ [][ (ret.op = "provided" /\ ret.val \notin {FAIL, UNDEF}
              /\ ret'.op = "get" /\ ret'.key = ret.key)
           => ret'.val = ret.val ]_vars

\* a get has returned the value that only the provider hands out
C11_Witness ==
    /\ "provider" \in DOMAIN options
    /\ ret.op = "get"
    /\ ret.val \in env.outcomes \ env.values
    /\ Stored(data, ret.key)

\* the state right after set('a', v), set('b', v, 2000), set('c', v, null) on
\* the cache of the README example
AfterReadmeSets ==
    /\ env = ReadmeRun
    /\ ret.op = "set"
    /\ ret.key = "c"
    /\ clock = 0
    /\ [i \in 1..Len(data) |-> <<data[i].key, data[i].ttl>>]
          = << <<"a", 1000>>, <<"b", 2000>>, <<"c", NULL>> >>
    /\ touched = <<"c", "b", "a">>
    /\ timers = 1

\* C12: with max 2, ttl 1000 and every other option at its default, the
\* get('a') issued right after set('a'), set('b', ., 2000), set('c', ., null)
\* returns undefined.
C12_ReadmeExample ==
    [][ (AfterReadmeSets /\ ret'.op = "get" /\ ret'.key = "a")
        => ret'.val = UNDEF ]_vars

\* what the store holds, the list links left out
Facts(d) == {<<d[i].key, d[i].value, d[i].ttl, d[i].timestamp>> : i \in 1..Len(d)}

\* C13: set(k, undefined) does what del(k) does: it returns true exactly when
\* k was stored, k is not stored afterwards, every other entry is as before,
\* no sweep runs or is scheduled, and the cache is left as del(k) leaves it.
C13_SetUndefinedIsDel ==
    [][ (ret'.op = "set" /\ ret'.arg = UNDEF)
        => /\ ret'.val = (IF Stored(data, ret'.key) THEN "true" ELSE "false")
           /\ ~Stored(data', ret'.key)
           /\ Facts(data') = {e \in Facts(data) : e[1] # ret'.key}
           /\ ~ret'.swept
           /\ timers' = timers
           /\ LET Same(d) == <<data', head', tail', ttlCount', lastVacuumAt',
                                pendingVacuum'>>
                              = <<d.c.data, d.c.head, d.c.tail, d.c.ttlCount,
                                  d.c.lastVacuumAt, d.c.pendingVacuum>>
              IN  Same(DelOp(Cache, StrKey(ret'.key))) ]_vars

\* set(k, undefined) has just removed k and left another entry in the store
C13_Witness ==
    /\ ret.op = "set"
    /\ ret.arg = UNDEF
    /\ ret.val = "true"
    /\ ret.removed = {ret.key}
    /\ data # <<>>

\* C14: the entry created by set(k, v, ttl) carries the ttl passed, null
\* included, and the cache-wide default only when the ttl was omitted; has
\* reports an entry with a null ttl at every clock value, and an entry with
\* a finite ttl T created at c exactly while clock - c <= T.
C14_TtlResolution ==
    /\ [][ (ret'.op = "set" /\ ret'.arg # UNDEF)
           => /\ Stored(data', ret'.key)
              /\ EntryAt(data', ret'.key).ttl
                   = (IF ret'.ttl = OMIT THEN Opt("ttl") ELSE ret'.ttl) ]_vars
    /\ [][ (ret'.op = "has" /\ Stored(data, ret'.key))
           => LET e == EntryAt(data, ret'.key)
              IN  ret'.val = (IF e.ttl \in {NULL, 0} \/ clock - e.timestamp <= e.ttl
                              THEN "true" ELSE "false") ]_vars

\* has has just reported an entry set with ttl null that outlived the default ttl
C14_Witness ==
    /\ ret.op = "has"
    /\ ret.val = "true"
    /\ Truthy(Opt("ttl"))
    /\ Stored(data, ret.key)
    /\ EntryAt(data, ret.key).ttl = NULL
    /\ clock - EntryAt(data, ret.key).timestamp > Opt("ttl")

\* C15: set(k, v2, ttl2) on a stored key leaves exactly one entry for k,
\* with value v2, created at the clock of this call, with the ttl resolved
\* from this call alone, and at the head of the list when max is set.
C15_ResetReplaces ==
    [][ (ret'.op = "set" /\ ret'.arg # UNDEF /\ Stored(data, ret'.key))
        => /\ Cardinality({i \in 1..Len(data') : data'[i].key = ret'.key}) = 1
           /\ LET e == EntryAt(data', ret'.key)
              IN  /\ e.value = ret'.arg
                  /\ e.timestamp = clock
                  /\ e.ttl = (IF ret'.ttl = OMIT THEN Opt("ttl") ELSE ret'.ttl)
                  /\ Truthy(Opt("max")) => (head' = ret'.key /\ e.prev = NIL) ]_vars

\* a stored key has just been set again at a later clock, under max, with
\* another entry in the store
C15_Witness ==
    /\ ret.op = "set"
    /\ ret.arg # UNDEF
    /\ ret.had
    /\ clock > 0
    /\ Truthy(Opt("max"))
    /\ Len(data) > 1
    /\ head = ret.key
    /\ EntryAt(data, ret.key).timestamp = clock

\* C16: when emptyOut() returns the store is empty, head and tail are
\* null and the count of entries with a ttl is 0; a get right after it
\* returns undefined for every key.
C16_EmptyOutClears ==
    /\ [][ ret'.op = "emptyOut"
           => (data' = <<>> /\ head' = NIL /\ tail' = NIL /\ ttlCount' = 0) ]_vars
    /\ [][ (ret.op = "emptyOut" /\ ret'.op \in {"get", "has"})
           => ret'.val \in {UNDEF, "false"} ]_vars

\* emptyOut has just removed several entries of a cache with max and ttl
C16_Witness ==
    /\ ret.op = "emptyOut"
    /\ Cardinality(ret.removed) >= 2
    /\ Truthy(Opt("max"))
    /\ Truthy(Opt("ttl"))
    /\ data = <<>>

\* a number and the string a client would write for it
NumberAndString ==
    { <<NumKey(2), StrKey("2")>>, <<NumKey(10), StrKey("10")>> }

\* the strings the clients of the runs use as keys
KeyStrings == {"1", "2", "3", "a", "b", "c", "d"}

\* C17: get, has, set and del called with a number do what they do when
\* called with its string: same result and same cache afterwards; every
\* stored key, and so every key keys() yields, is a string.
C17_KeysCanonical ==
    /\ \A p \in NumberAndString :
          /\ GetOp(Cache, p[1], clock) = GetOp(Cache, p[2], clock)
          /\ HasOp(Cache, p[1], clock) = HasOp(Cache, p[2], clock)
          /\ DelOp(Cache, p[1]) = DelOp(Cache, p[2])
          /\ \A v \in env.values \cup {UNDEF}, t \in env.ttls :
                SetOp(Cache, p[1], v, t, clock) = SetOp(Cache, p[2], v, t, clock)
    /\ \A i \in 1..Len(data) : data[i].key \in KeyStrings
    /\ \A i \in 1..Len(ret.keys) : ret.keys[i] \in KeyStrings

\* a client that uses the number 2 has just read the entry stored under "2"
C17_Witness ==
    /\ NumKey(2) \in env.keys
    /\ ret.op = "get"
    /\ ret.key = "2"
    /\ ret.val # UNDEF
    /\ GetOp(Cache, NumKey(2), clock).val = ret.val

\* C18: provide on a cache without a provider throws in the call itself, no
\* promise is handed out, and the store, the list, the registry and the
\* vacuum state are as before.
C18_NoProviderThrows ==
    [][ (ret'.op = "provide" /\ "provider" \notin DOMAIN options)
        => /\ ret'.val = "throw"
           /\ ret'.id = 0
           /\ UNCHANGED <<CacheVars, providerPromises, fetches, touched>> ]_vars

\* provide has just thrown while an expired entry sits under the key it derives
C18_Witness ==
    /\ ret.op = "provide"
    /\ ret.val = "throw"
    /\ Stored(data, "1")
    /\ HasExpired(EntryAt(data, "1"), clock)

\* C19: with vacuumFrequency null, and no max so that no overflow can ask
\* for a sweep, the decision step of get, has, set and provide never runs
\* and never schedules a sweep, whatever the clock and the contents.
C19_NullFrequencyDisables ==
    [][ (Opt("vacuumFrequency") = NULL /\ ~Truthy(Opt("max"))
            /\ ret'.op \in {"get", "has", "set", "provide", "provided"})
        => (~ret'.swept /\ timers' = timers /\ pendingVacuum' = pendingVacuum) ]_vars

\* C20: when max is set, keys() yields at most max keys, also with a
\* deferred sweep outstanding; when no entry has expired, the keys beyond
\* max that it drops are the least recently touched ones.
C20_KeysWithinMax ==
    [][ (ret'.op = "keys" /\ Truthy(Opt("max")))
        => /\ Len(ret'.keys) <= Opt("max")
           /\ ret'.keys = MapKeys(data')
           /\ (\A i \in 1..Len(data) : ~HasExpired(data[i], clock))
                => ret'.removed = {touched[i] : i \in (Opt("max") + 1)..Len(touched)} ]_vars

\* keys() has just cut the store down to max while a deferred sweep was outstanding
C20_Witness ==
    /\ ret.op = "keys"
    /\ Truthy(Opt("max"))
    /\ Len(ret.keys) = Opt("max")
    /\ Cardinality(ret.removed) = 1
    /\ timers = 1

\* the keys met walking the list from key k by next, at most n of them; a
\* link to a key that is not stored ends the walk with "?"
RECURSIVE ListWalk(_, _, _)
ListWalk(d, k, n) ==
    IF k = NIL \/ n = 0 THEN <<>>
    ELSE IF ~Stored(d, k) THEN <<"?">>
    ELSE <<k>> \o ListWalk(d, EntryAt(d, k).next, n - 1)

\* C21: with max set, the walk from head by next meets exactly the stored
\* entries, each once, and ends at tail; head.prev and tail.next are null,
\* e.next.prev = e and e.prev.next = e, and head and tail are null exactly
\* when the store is empty.  Without max, head, tail and every link stay
\* null.  An entry taken off the list carries null links.
C21_ListMatchesStore ==
    IF Truthy(Opt("max"))
    THEN LET w == ListWalk(data, head, Len(data) + 1)
         IN  /\ Len(w) = Len(data)
             /\ {w[i] : i \in 1..Len(w)} = KeySet(data)
             /\ (head = NIL) <=> (data = <<>>)
             /\ (tail = NIL) <=> (data = <<>>)
             /\ data # <<>> => /\ w[Len(w)] = tail
                               /\ EntryAt(data, head).prev = NIL
                               /\ EntryAt(data, tail).next = NIL
             /\ \A i \in 1..Len(data) :
                   /\ data[i].next # NIL
                        => (Stored(data, data[i].next)
                            /\ EntryAt(data, data[i].next).prev = data[i].key)
                   /\ data[i].prev # NIL
                        => (Stored(data, data[i].prev)
                            /\ EntryAt(data, data[i].prev).next = data[i].key)
                   /\ LET Off(e) == e.next = NIL /\ e.prev = NIL
                      IN  Off(EntryAt(Detach(Cache, data[i].key).data, data[i].key))
    ELSE /\ head = NIL
         /\ tail = NIL
         /\ \A i \in 1..Len(data) : data[i].next = NIL /\ data[i].prev = NIL

\* a get has just moved the middle one of three linked entries to the head
C21_Witness ==
    /\ Truthy(Opt("max"))
    /\ ret.op = "get"
    /\ ret.val # UNDEF
    /\ Len(data) = 3
    /\ head = ret.key
    /\ tail # data[Len(data)].key
    /\ ListWalk(data, head, 4) # MapKeys(data)

\* C22: _ttlCount is the number of stored entries whose ttl is set (not
\* null, not 0); it is never negative and is 0 when the store is empty.
C22_TtlCountMatches ==
    /\ ttlCount = Cardinality({i \in 1..Len(data) : data[i].ttl \notin {NULL, 0}})
    /\ ttlCount >= 0
    /\ data = <<>> => ttlCount = 0

\* a sweep has just removed entries with a ttl and left entries with and without one
C22_Witness ==
    /\ ret.swept
    /\ ret.removed # {}
    /\ ttlCount > 0
    /\ Len(data) > ttlCount

\* C23: with max set, the list from head to tail is the order of last
\* touch of the stored keys, newest first, a touch being a set of the key or
\* a get or has that finds it; has moves the entry as get does.
C23_ListIsTouchOrder ==
    Truthy(Opt("max"))
    => /\ ListWalk(data, head, Len(data) + 1) = touched
       /\ \A k \in env.keys : HasOp(Cache, k, clock).c = GetOp(Cache, k, clock).c

\* set a, set b, get a, set c, get a, set d, get b: the list is b, d, a, c
C23_Witness ==
    /\ env = OrderRun
    /\ ret.op = "get"
    /\ ret.key = "b"
    /\ MapKeys(data) = <<"a", "b", "c", "d">>
    /\ touched = <<"b", "d", "a", "c">>
    /\ ListWalk(data, head, 5) = <<"b", "d", "a", "c">>

\* C24: right after a step in which _vacuum ran, no stored entry has expired
\* at the clock of the sweep and, with max set, the store holds at most max
\* entries; this includes the sweeps that left the loop at _ttlCount <= 0.
C24_SweepLeavesNoExpired ==
    ret.swept
    => /\ \A i \in 1..Len(data) :
              ~(FiniteTtl(data[i]) /\ clock - data[i].timestamp > data[i].ttl)
       /\ Truthy(Opt("max")) => Len(data) <= Opt("max")

\* a sweep that removed expired entries, left the loop with no ttl counted
\* and kept an entry without ttl
C24_Witness ==
    /\ ret.swept
    /\ ret.removed # {}
    /\ ret.key \notin ret.removed
    /\ ttlCount = 0
    /\ Len(data) > 0
    /\ clock > data[1].timestamp

\* the keys a sweep keeps when it runs at the end of a call on key k that
\* touched k (hit) or did not: the entries that have not expired, and with
\* max set the first max of them in the order of last touch
Survivors(k, hit) ==
    LET live  == {x \in KeySet(data) \ {k} :
                     ~(FiniteTtl(EntryAt(data, x))
                       /\ clock - EntryAt(data, x).timestamp > EntryAt(data, x).ttl)}
                 \cup (IF hit THEN {k} ELSE {})
        order == SelectSeq((IF hit THEN <<k>> ELSE <<>>)
                               \o SelectSeq(touched, LAMBDA x : x # k),
                           LAMBDA x : x \in live)
    IN  IF Truthy(Opt("max"))
        THEN {order[i] : i \in {j \in 1..Len(order) : j <= Opt("max")}}
        ELSE live

\* C25: the entries left by a sweep (from keys(), from the timer, or at the
\* end of get, has, set or the set of a provided value) are exactly the
\* entries that have not expired, cut with max set to the max most recently
\* touched of them; no entry that has not expired leaves while at most max
\* of them exist.
C25_SweepKeepsRecentLive ==
    [][(ret'.swept /\ ret'.op \in {"keys", "timer", "get", "has", "set", "provided"})
       => KeySet(data') =
              Survivors(ret'.key,
                        \/ ret'.op = "get" /\ ret'.val # UNDEF
                        \/ ret'.op = "has" /\ ret'.val = "true"
                        \/ ret'.op = "set" /\ ret'.arg # UNDEF
                        \/ ret'.op = "provided" /\ ret'.val \notin {FAIL, UNDEF})]_vars

\* a sweep over two entries with max 1: the newer one had expired and left,
\* the older one, which cannot expire, stays
C25_Witness ==
    /\ env = LruTtlRun
    /\ ret.op = "timer"
    /\ ret.swept
    /\ ret.head # NIL
    /\ ret.removed = {ret.head}
    /\ Len(data) = 1
    /\ data[1].ttl = NULL

\* the size of the store and the number of entries with a ttl when a get or
\* has on key k, or a set of k with ttl argument t, reaches _tryVacuum
SizeAtDecision(op, k, t) ==
    IF op = "set" THEN Len(data) + (IF Stored(data, k) THEN 0 ELSE 1)
    ELSE IF Stored(data, k) /\ FiniteTtl(EntryAt(data, k))
            /\ clock - EntryAt(data, k).timestamp > EntryAt(data, k).ttl
         THEN Len(data) - 1
         ELSE Len(data)

TtlCountAtDecision(op, k, t) ==
    IF op = "set"
    THEN ttlCount
         - (IF Stored(data, k) /\ FiniteTtl(EntryAt(data, k)) THEN 1 ELSE 0)
         + (IF (IF t = OMIT THEN Opt("ttl") ELSE t) > 0 THEN 1 ELSE 0)
    ELSE IF Stored(data, k) /\ FiniteTtl(EntryAt(data, k))
            /\ clock - EntryAt(data, k).timestamp > EntryAt(data, k).ttl
         THEN ttlCount - 1
         ELSE ttlCount

\* no entry with a ttl, and max unset or the size below max
NoSweepNeeded(size, count) ==
    count = 0 /\ (Opt("max") \in {NULL, 0} \/ size < Opt("max"))

\* vacuumFrequency has elapsed, or max is set and the size has reached
\* max * vacuumOverflowFactor
SweepWarranted(size) ==
    \/ clock - lastVacuumAt >= Opt("vacuumFrequency")
    \/ /\ Opt("max") \notin {NULL, 0}
       /\ size * options.vacuumOverflowFactor.den
            >= Opt("max") * options.vacuumOverflowFactor.num

\* C26: with vacuumInBackground off, a get, has or set that reaches
\* _tryVacuum with an entry with a ttl in the store, or with max set and the
\* size at max or more, runs _vacuum inside the call exactly when
\* vacuumFrequency has elapsed since lastVacuumAt or max is set and
\* size >= max * vacuumOverflowFactor. With max 2 and factor 1.5, before
\* vacuumFrequency has elapsed, the insert of a new key sweeps exactly when
\* it is the third entry.
C26_SyncSweepIff ==
    [][(~options.vacuumInBackground
        /\ (ret'.op \in {"get", "has"} \/ (ret'.op = "set" /\ ret'.arg # UNDEF)))
       => /\ ~NoSweepNeeded(SizeAtDecision(ret'.op, ret'.key, ret'.ttl),
                            TtlCountAtDecision(ret'.op, ret'.key, ret'.ttl))
             => (ret'.swept
                 <=> SweepWarranted(SizeAtDecision(ret'.op, ret'.key, ret'.ttl)))
          /\ (/\ env = LruSyncRun
              /\ ret'.op = "set"
              /\ ~Stored(data, ret'.key)
              /\ clock - lastVacuumAt < Opt("vacuumFrequency"))
             => (ret'.swept <=> Len(data) = 2)]_vars

\* the third insert with max 2 and factor 1.5 at the clock of construction:
\* the sweep ran inside set and ate the tail
C26_Witness ==
    /\ env = LruSyncRun
    /\ ret.op = "set"
    /\ ~ret.had
    /\ ret.swept
    /\ Cardinality(ret.removed) = 1
    /\ Len(data) = 2
    /\ clock = 0

\* C27: a get, has or set that reaches _tryVacuum with no entry with a ttl
\* in the store, and with max unset or the size below max, runs no sweep and
\* schedules none, whatever time has passed since the last sweep:
\* pendingVacuum, lastVacuumAt and the outstanding timers stay as they were.
C27_NoSweepNeededReturns ==
    [][((ret'.op \in {"get", "has"} \/ (ret'.op = "set" /\ ret'.arg # UNDEF))
        /\ NoSweepNeeded(SizeAtDecision(ret'.op, ret'.key, ret'.ttl),
                         TtlCountAtDecision(ret'.op, ret'.key, ret'.ttl)))
       => /\ ~ret'.swept
          /\ pendingVacuum' = pendingVacuum
          /\ lastVacuumAt' = lastVacuumAt
          /\ timers' = timers]_vars

\* a set that stored an entry without ttl after vacuumFrequency had elapsed,
\* with nothing pending: no sweep ran and none was scheduled
C27_Witness ==
    /\ ret.op = "set"
    /\ ret.arg # UNDEF
    /\ ~ret.swept
    /\ ~pendingVacuum
    /\ timers = 0
    /\ ttlCount = 0
    /\ Len(data) = 2
    /\ Opt("max") = NULL
    /\ Opt("vacuumFrequency") # NULL
    /\ clock - lastVacuumAt >= Opt("vacuumFrequency")

\* C28: with vacuumInBackground on, no get, has or set runs _vacuum; of
\* the stored entries only the one under the key of the call can leave, and
\* the others keep value, ttl and timestamp; when nothing is pending and a
\* sweep is warranted, the call sets pendingVacuum and adds one timer, and
\* otherwise it leaves both alone.
C28_BackgroundCallsDoNotSweep ==
    [][(options.vacuumInBackground /\ ret'.op \in {"get", "has", "set"})
       => /\ ~ret'.swept
          /\ lastVacuumAt' = lastVacuumAt
          /\ ret'.removed \subseteq {ret'.key}
          /\ \A x \in KeySet(data) \ {ret'.key} :
                 /\ Stored(data', x)
                 /\ EntryAt(data', x).value = EntryAt(data, x).value
                 /\ EntryAt(data', x).ttl = EntryAt(data, x).ttl
                 /\ EntryAt(data', x).timestamp = EntryAt(data, x).timestamp
          /\ IF /\ ~pendingVacuum
                /\ ret'.op = "set" => ret'.arg # UNDEF
                /\ ~NoSweepNeeded(SizeAtDecision(ret'.op, ret'.key, ret'.ttl),
                                  TtlCountAtDecision(ret'.op, ret'.key, ret'.ttl))
                /\ SweepWarranted(SizeAtDecision(ret'.op, ret'.key, ret'.ttl))
             THEN pendingVacuum' /\ timers' = timers + 1
             ELSE pendingVacuum' = pendingVacuum /\ timers' = timers]_vars

\* the third insert with max 2: the sweep is scheduled and the three entries
\* are all still stored
C28_Witness ==
    /\ options.vacuumInBackground
    /\ ret.op = "set"
    /\ ~ret.had
    /\ ~ret.swept
    /\ ret.removed = {}
    /\ pendingVacuum
    /\ timers = 1
    /\ Opt("max") = 2
    /\ Len(data) = 3

\* C29: while a timer set by _tryVacuum is outstanding, a timer callback
\* runs in the end, whatever calls are made meanwhile (after a step that was
\* not a callback one follows, and after a callback that left n timers
\* another call or the next callback follows), so that each scheduled sweep
\* runs; pendingVacuum does not stay true for ever; and while pendingVacuum
\* is true a timer is outstanding.
C29_DeferredSweepRuns ==
    /\ (timers > 0 /\ ret.op # "timer") ~> (ret.op = "timer")
    /\ \A n \in 1..MaxTimers :
           (timers = n /\ ret.op = "timer") ~> (timers < n \/ ret.op # "timer")
    /\ pendingVacuum ~> ~pendingVacuum
    /\ [](pendingVacuum => timers > 0)

\* the callback of a scheduled sweep has run while a second one waits
C29_Witness ==
    /\ ret.op = "timer"
    /\ ret.swept
    /\ ret.removed # {}
    /\ ~pendingVacuum
    /\ timers = 1

\* C30: after every step in which _vacuum ran, from the timer, inside a get,
\* has or set, or from keys(), pendingVacuum is false and lastVacuumAt is
\* the clock of the sweep, also when the store was empty and nothing left.
C30_SweepResetsFlags ==
    ret.swept => (~pendingVacuum /\ lastVacuumAt = clock)

\* keys() on an empty store while a scheduled sweep still waits, later than
\* the construction: nothing left the store and the flags are reset
C30_Witness ==
    /\ ret.op = "keys"
    /\ ret.swept
    /\ ret.removed = {}
    /\ data = <<>>
    /\ timers = 1
    /\ ~pendingVacuum
    /\ clock > 0
    /\ lastVacuumAt = clock

\* C31: the registry holds exactly the keys of the chains whose finally
\* callback has not run (provider not yet called, pending, or settled with
\* the callback queued), so it is empty when there is no such chain; the
\* finally callback is the first reaction after the provider's result, it
\* removes the registration whatever the outcome and stores nothing; when
\* the last callback stores the value and settles the handle the
\* registration of that chain is gone; and a provide that misses the store
\* and finds no registration starts a chain in a free slot.
C31_RegistryHoldsUnsettled ==
    /\ [](DOMAIN providerPromises
             = {fetches[f].key : f \in {g \in DOMAIN fetches :
                    fetches[g].stage \in {"registered", "pending", "settled"}}})
    /\ []((\A f \in DOMAIN fetches : fetches[f].stage \in {"free", "cleaned"})
            => providerPromises = <<>>)
    /\ [][ ret'.op = "providerFinally"
           => /\ fetches[ret'.id].stage = "settled"
              /\ providerPromises[ret'.key] = ret'.id
              /\ ret'.key \notin DOMAIN providerPromises'
              /\ UNCHANGED CacheVars ]_vars
    /\ [][ ret'.op = "provided"
           => /\ fetches[ret'.id].stage = "cleaned"
              /\ ActivePromise(ret'.key) # ret'.id
              /\ providerPromises' = providerPromises ]_vars
    /\ [][ (ret'.op = "provide" /\ ret'.val = "" /\ ret'.key \notin DOMAIN providerPromises)
           => /\ fetches[ret'.id].stage = "free"
              /\ fetches'[ret'.id].stage = "registered"
              /\ providerPromises'[ret'.key] = ret'.id ]_vars

\* the chain of a failed call has had its cleanup, its handle is not yet
\* rejected, and a provide for the same key has started a second chain
C31_Witness ==
    /\ ret.op = "provide"
    /\ ret.id # 0
    /\ fetches[ret.id].stage = "registered"
    /\ providerPromises[ret.key] = ret.id
    /\ \E f \in DOMAIN fetches :
           /\ f # ret.id
           /\ fetches[f].key = ret.key
           /\ fetches[f].stage = "cleaned"
           /\ fetches[f].outcome = FAIL

\* C32: del of a key that is not stored returns false and changes nothing;
\* del of a stored key returns true, takes that one entry out of the store,
\* lowers _ttlCount by one exactly when the entry had a ttl, leaves the
\* other entries as they were and in their order in the store and in the
\* list, and leaves lastVacuumAt, pendingVacuum and the timers alone: no
\* sweep runs and none is scheduled.
C32_DelTouchesOneEntry ==
    [][ ret'.op = "del"
        => /\ ~ret'.swept
           /\ UNCHANGED <<lastVacuumAt, pendingVacuum, timers, providerPromises, fetches>>
           /\ IF ~Stored(data, ret'.key)
              THEN /\ ret'.val = "false"
                   /\ UNCHANGED <<CacheVars, touched>>
              ELSE /\ ret'.val = "true"
                   /\ data' = SelectSeq(data, LAMBDA e : e.key # ret'.key)
                         \/ /\ Truthy(Opt("max"))
                            /\ MapKeys(data')
                                 = SelectSeq(MapKeys(data), LAMBDA x : x # ret'.key)
                            /\ \A x \in KeySet(data') :
                                   /\ EntryAt(data', x).value = EntryAt(data, x).value
                                   /\ EntryAt(data', x).ttl = EntryAt(data, x).ttl
                                   /\ EntryAt(data', x).timestamp
                                        = EntryAt(data, x).timestamp
                   /\ ttlCount' = ttlCount
                                    - (IF EntryAt(data, ret'.key).ttl \in {NULL, 0}
                                       THEN 0 ELSE 1)
                   /\ Truthy(Opt("max"))
                      => ListWalk(data', head', Len(data') + 1)
                           = SelectSeq(ListWalk(data, head, Len(data) + 1),
                                       LAMBDA x : x # ret'.key)
                   /\ ~Truthy(Opt("max")) => (head' = head /\ tail' = tail) ]_vars

\* with max 2 and a sweep pending over three entries, del has taken out an
\* entry that was not at the head: two entries stay and the sweep still waits
C32_Witness ==
    /\ Opt("max") = 2
    /\ ret.op = "del"
    /\ ret.val = "true"
    /\ ret.removed = {ret.key}
    /\ Len(data) = 2
    /\ head = ret.head
    /\ pendingVacuum
    /\ timers = 1

\* C33: a set with the ttl argument 0 stores an entry with ttl 0, which
\* _ttlCount does not count; get and has find such an entry at every clock
\* and leave it stored; and it leaves the store only through del, emptyOut,
\* a set of undefined on its key, or a sweep that trims the store down to max.
C33_ZeroTtlNeverExpires ==
    /\ [](ttlCount = Cardinality({i \in 1..Len(data) : data[i].ttl \notin {NULL, 0}}))
    /\ [][ (ret'.op = "set" /\ ret'.arg # UNDEF /\ ret'.ttl = 0 /\ Stored(data', ret'.key))
           => /\ EntryAt(data', ret'.key).ttl = 0
              /\ ~ret'.swept
                 => ttlCount' = Cardinality({i \in 1..Len(data) :
                                    /\ data[i].key # ret'.key
                                    /\ data[i].ttl \notin {NULL, 0}}) ]_vars
    /\ [][ (ret'.op \in {"get", "has"} /\ Stored(data, ret'.key)
              /\ EntryAt(data, ret'.key).ttl = 0)
           => /\ ret'.val = (IF ret'.op = "get" THEN EntryAt(data, ret'.key).value
                             ELSE "true")
              /\ Stored(data', ret'.key)
              /\ EntryAt(data', ret'.key).timestamp = EntryAt(data, ret'.key).timestamp ]_vars
    /\ [][ \A x \in KeySet(data) :
              (EntryAt(data, x).ttl = 0 /\ ~Stored(data', x))
              => \/ ret'.op \in {"del", "emptyOut"}
                 \/ ret'.op = "set" /\ ret'.key = x /\ ret'.arg = UNDEF
                 \/ /\ Truthy(Opt("max"))
                    /\ ret'.swept
                    /\ Len(data') = Opt("max") ]_vars

\* with the default ttl 1, an entry set with ttl 0 at clock 0 is read at
\* clock 3, after a sweep has passed over it; no entry with a ttl is counted
C33_Witness ==
    /\ Opt("ttl") = 1
    /\ ret.op = "get"
    /\ ret.val # UNDEF
    /\ clock = 3
    /\ Stored(data, ret.key)
    /\ EntryAt(data, ret.key).ttl = 0
    /\ EntryAt(data, ret.key).timestamp = 0
    /\ lastVacuumAt > 0
    /\ ttlCount = 0

\* C34: from the provide that misses until the fetched value is stored, the
\* key of a chain that ends with a value is in the registry or in the store,
\* and a provide for that key in this interval starts no second chain.
C34_NoSecondFetch ==
    /\ [](\A f \in DOMAIN fetches :
            (fetches[f].stage = "cleaned" /\ fetches[f].outcome \notin {FAIL, UNDEF})
            => (fetches[f].key \in DOMAIN providerPromises \/ Stored(data, fetches[f].key)))
    /\ [][ (ret'.op = "provide"
              /\ \E f \in DOMAIN fetches :
                     /\ fetches[f].key = ret'.key
                     /\ fetches[f].stage = "cleaned"
                     /\ fetches[f].outcome \notin {FAIL, UNDEF})
           => fetches' = fetches ]_vars

\* C35: with max set and vacuumInBackground off, the store holds at most
\* max entries or fewer than max * vacuumOverflowFactor, at the return of
\* every call; and a get, has, set or provider completion that returns with
\* more than max entries has run no sweep.
C35_SyncSizeBelowOverflow ==
    (Truthy(Opt("max")) /\ ~options.vacuumInBackground)
    => /\ \/ Len(data) <= Opt("max")
          \/ Len(data) * options.vacuumOverflowFactor.den
               < Opt("max") * options.vacuumOverflowFactor.num
       /\ ~pendingVacuum
       /\ timers = 0
       /\ (ret.op \in {"get", "has", "set", "provided"} /\ Len(data) > Opt("max"))
          => ~ret.swept

\* max 1 and factor 3: a set has returned with two entries in the store and
\* no sweep
C35_Witness ==
    /\ env = SyncOverflowRun
    /\ ret.op = "set"
    /\ ~ret.had
    /\ ~ret.swept
    /\ Len(data) = 2

\* C36: the last callback of a chain that ended with a value v stores v
\* under the key whatever the store held for it: afterwards the entry of the
\* key has value v, the clock of the callback as timestamp and the default
\* ttl, and a get of the key as the next step returns v.
C36_CompletionOverwrites ==
    /\ [][ (ret'.op = "provided" /\ ret'.val \notin {FAIL, UNDEF})
           => /\ Stored(data', ret'.key)
              /\ EntryAt(data', ret'.key).value = ret'.val
              /\ EntryAt(data', ret'.key).value = fetches[ret'.id].outcome
              /\ EntryAt(data', ret'.key).timestamp = clock
              /\ EntryAt(data', ret'.key).ttl = Opt("ttl") ]_vars
    /\ [][ (ret.op = "provided" /\ ret.val \notin {FAIL, UNDEF}
              /\ ret'.op = "get" /\ ret'.key = ret.key)
           => ret'.val = ret.val ]_vars

\* a set stored "A" under the key while the fetch was in flight; the
\* completion, later than the construction, has replaced it by "B"
C36_Witness ==
    /\ ret.op = "provided"
    /\ ret.val = "B"
    /\ ret.had
    /\ clock > 0
    /\ Stored(data, ret.key)
    /\ EntryAt(data, ret.key).value = "B"
    /\ EntryAt(data, ret.key).timestamp = clock
    /\ EntryAt(data, ret.key).ttl = 1

\* C37: del of a key whose entry has expired and is still in the store
\* returns true and takes the entry out, while has on the same state
\* answers false.
C37_DelIgnoresTtl ==
    [][ (ret'.op = "del" /\ Stored(data, ret'.key)
           /\ EntryAt(data, ret'.key).ttl > 0
           /\ clock - EntryAt(data, ret'.key).timestamp > EntryAt(data, ret'.key).ttl)
        => /\ ret'.val = "true"
           /\ ~Stored(data', ret'.key)
           /\ ttlCount' = ttlCount - 1
           /\ HasOp(Cache, StrKey(ret'.key), clock).val = "false" ]_vars

\* del has just removed an entry that had expired and reported true
C37_Witness ==
    /\ ret.op = "del"
    /\ ret.stale
    /\ ret.val = "true"
    /\ ret.removed = {ret.key}
    /\ ~Stored(data, ret.key)

\* C38: get and has leave the value, the timestamp and the ttl of every
\* entry that stays in the store as they were, the entry they read and
\* move to the head included; whatever was read before, a get of an entry
\* with ttl T created at c returns undefined once clock - c > T; a set of a
\* value gives the entry of its key the clock of the set as timestamp.
C38_ReadsDoNotRefresh ==
    /\ [][ ret'.op \in {"get", "has"}
           => \A x \in KeySet(data') :
                 /\ Stored(data, x)
                 /\ EntryAt(data', x).value = EntryAt(data, x).value
                 /\ EntryAt(data', x).timestamp = EntryAt(data, x).timestamp
                 /\ EntryAt(data', x).ttl = EntryAt(data, x).ttl ]_vars
    /\ [][ (ret'.op = "get" /\ Stored(data, ret'.key)
              /\ EntryAt(data, ret'.key).ttl > 0)
           => (ret'.val = UNDEF
               <=> clock - EntryAt(data, ret'.key).timestamp
                     > EntryAt(data, ret'.key).ttl) ]_vars
    /\ [][ (ret'.op = "set" /\ ret'.arg # UNDEF /\ Stored(data', ret'.key))
           => EntryAt(data', ret'.key).timestamp = clock ]_vars

\* with max set, a get later than the creation has found an entry with a
\* ttl and moved it to the head; its timestamp is still that of its set
C38_Witness ==
    /\ Truthy(Opt("max"))
    /\ ret.op = "get"
    /\ ret.val # UNDEF
    /\ ret.head # ret.key
    /\ head = ret.key
    /\ EntryAt(data, ret.key).ttl > 0
    /\ EntryAt(data, ret.key).timestamp < clock

====
